---------------------------- MODULE Spec2Model ----------------------------
(***************************************************************************)
(* A model of the insurance tariff service (src/app): the tariffs table,   *)
(* the upload_tariffs and calculate_insurance request handlers and the     *)
(* most-recent-rate-as-of-date query, and the healthcheck.                 *)
(*                                                                         *)
(* Requests run concurrently, each with its own database session.  A step  *)
(* of the model is one store operation of one request (the SELECT of       *)
(* calculate_insurance, the COMMIT of upload_tariffs) or one piece of      *)
(* request-local work between two of them.                                 *)
(*                                                                         *)
(* Strings that the code parses (dates) are sequences of characters and    *)
(* are parsed; floats are binary floating-point numbers with a mantissa of *)
(* MantBits bits, rounded to nearest-even after every operation, as        *)
(* CPython's float is (with 53 bits).  The exponent range is not bounded:  *)
(* overflow and underflow are not modelled.  Reads of the store always     *)
(* succeed; a COMMIT may fail.                                             *)
(***************************************************************************)
EXTENDS Integers, Sequences, FiniteSets, TLC

(***************************************************************************)
(* Bounds of the model.                                                    *)
(***************************************************************************)
\* Bits of mantissa of the model's floats.
MantBits == 3
\* New uploads are accepted while the table holds fewer rows than this.
MaxStore == 2

(***************************************************************************)
(* Floats: [m |-> signed mantissa, e |-> exponent], value m * 2^e, with    *)
(* 2^(MantBits-1) <= |m| < 2^MantBits, or m = 0.                           *)
(***************************************************************************)
Abs(n) == IF n < 0 THEN -n ELSE n

Sgn(n) == IF n < 0 THEN -1 ELSE IF n = 0 THEN 0 ELSE 1

Zero == [m |-> 0, e |-> 0]

\* The float nearest to the rational (n / d) * 2^e, n >= 0, d > 0, ties to even.
RECURSIVE RoundPos(_, _, _)
RoundPos(n, d, e) ==
    IF n = 0 THEN Zero
    ELSE IF n >= d * (2 ^ MantBits) THEN RoundPos(n, 2 * d, e + 1)
    ELSE IF n < d * (2 ^ (MantBits - 1)) THEN RoundPos(2 * n, d, e - 1)
    ELSE LET q == n \div d
             r == n % d
             up == (2 * r > d) \/ (2 * r = d /\ q % 2 = 1)
             m == IF up THEN q + 1 ELSE q
         IN  IF m = 2 ^ MantBits
             THEN [m |-> 2 ^ (MantBits - 1), e |-> e + 1]
             ELSE [m |-> m, e |-> e]

Signed(s, f) == [m |-> s * f.m, e |-> f.e]

\* A decimal literal n/d read as a float (json.loads of a number).
FloatOf(n, d) == Signed(Sgn(n), RoundPos(Abs(n), d, 0))

\* a * b on floats.
FMul(a, b) == Signed(Sgn(a.m) * Sgn(b.m), RoundPos(Abs(a.m) * Abs(b.m), 1, a.e + b.e))

\* a / b on floats, b # 0 (Python raises ZeroDivisionError for b = 0).
FDiv(a, b) == Signed(Sgn(a.m) * Sgn(b.m), RoundPos(Abs(a.m), Abs(b.m), a.e - b.e))

(***************************************************************************)
(* Dates: datetime.strptime(s, "%Y-%m-%d").date() on a sequence of         *)
(* characters.  A date is <<year, month, day>>.                            *)
(***************************************************************************)
DigitVal == ("0" :> 0) @@ ("1" :> 1) @@ ("2" :> 2) @@ ("3" :> 3) @@ ("4" :> 4)
            @@ ("5" :> 5) @@ ("6" :> 6) @@ ("7" :> 7) @@ ("8" :> 8) @@ ("9" :> 9)

IsDigits(s) == \A i \in 1..Len(s) : s[i] \in DOMAIN DigitVal

RECURSIVE NumVal(_)
NumVal(s) ==
    IF s = <<>> THEN 0
    ELSE 10 * NumVal(SubSeq(s, 1, Len(s) - 1)) + DigitVal[s[Len(s)]]

IsLeap(y) == (y % 4 = 0 /\ y % 100 # 0) \/ y % 400 = 0

DaysInMonth(y, m) ==
    IF m = 2 THEN (IF IsLeap(y) THEN 29 ELSE 28)
    ELSE IF m \in {4, 6, 9, 11} THEN 30 ELSE 31

\* [ok |-> TRUE, date |-> <<y, m, d>>], or [ok |-> FALSE] where strptime raises
\* ValueError.
StrpDate(s) ==
    LET dashes == {i \in 1..Len(s) : s[i] = "-"}
    IN  IF Cardinality(dashes) # 2 THEN [ok |-> FALSE]
        ELSE LET i == CHOOSE x \in dashes : \A z \in dashes : x <= z
                 j == CHOOSE x \in dashes : \A z \in dashes : z <= x
                 ys == SubSeq(s, 1, i - 1)
                 ms == SubSeq(s, i + 1, j - 1)
                 ds == SubSeq(s, j + 1, Len(s))
             IN  IF ~ (/\ Len(ys) = 4 /\ Len(ms) \in 1..2 /\ Len(ds) \in 1..2
                       /\ IsDigits(ys) /\ IsDigits(ms) /\ IsDigits(ds))
                 THEN [ok |-> FALSE]
                 ELSE LET y == NumVal(ys)
                          m == NumVal(ms)
                          d == NumVal(ds)
                      IN  IF /\ y >= 1 /\ m \in 1..12
                             /\ d >= 1 /\ d <= DaysInMonth(y, m)
                          THEN [ok |-> TRUE, date |-> <<y, m, d>>]
                          ELSE [ok |-> FALSE]

\* a <= b on dates.
DateLE(a, b) ==
    \/ a[1] < b[1]
    \/ a[1] = b[1] /\ a[2] < b[2]
    \/ a[1] = b[1] /\ a[2] = b[2] /\ a[3] <= b[3]


(***************************************************************************)
(* JSON values of an uploaded file, and the inputs the requests draw from. *)
(***************************************************************************)
JStr(s) == [t |-> "str", s |-> s]

JNum(n, d) == [t |-> "num", n |-> n, d |-> d]

JNull == [t |-> "null"]

\* float(x) of a JSON value: [ok |-> TRUE, val |-> f] or [ok |-> FALSE, exc |-> e].
PyFloat(x) ==
    IF x.t = "num" THEN [ok |-> TRUE, val |-> FloatOf(x.n, x.d)]
    ELSE IF x.t = "null" THEN [ok |-> FALSE, exc |-> "TypeError"]
    ELSE IF x.s = "3" THEN [ok |-> TRUE, val |-> FloatOf(3, 1)]
    ELSE [ok |-> FALSE, exc |-> "ValueError"]

D0501 == <<"2", "0", "2", "0", "-", "0", "5", "-", "0", "1">>

D0601 == <<"2", "0", "2", "0", "-", "0", "6", "-", "0", "1">>

\* "2020-7-1": strptime accepts a month and a day of one digit.
D0701 == <<"2", "0", "2", "0", "-", "7", "-", "1">>

\* 30 February, and a date in another format: strptime raises ValueError.
DFeb30 == <<"2", "0", "2", "0", "-", "0", "2", "-", "3", "0">>

DSlash == <<"0", "1", "/", "0", "6", "/", "2", "0", "2", "0">>

Glass05 == [cargo_type |-> JStr("Glass"), rate |-> JNum(5, 100)]

Glass07 == [cargo_type |-> JStr("Glass"), rate |-> JNum(7, 100)]

Metal03 == [cargo_type |-> JStr("Metal"), rate |-> JNum(3, 100)]

GlassStr3 == [cargo_type |-> JStr("Glass"), rate |-> JStr("3")]

NoRate == [cargo_type |-> JStr("Glass")]

NoCargo == [rate |-> JNum(5, 100)]

BadRate == [cargo_type |-> JStr("Glass"), rate |-> JStr("abc")]

NullRate == [cargo_type |-> JStr("Glass"), rate |-> JNull]

NumCargo == [cargo_type |-> JNum(1, 1), rate |-> JNum(5, 100)]

Item(k, v) == [date_str |-> k, rate_data |-> v]

\* Parsed JSON objects (data.items() in file order) that upload without error.
GoodPayloads ==
    { << Item(D0601, <<Glass05, Metal03>>) >>,
      << Item(D0701, <<Glass07>>), Item(D0501, <<Metal03>>) >>,
      << Item(D0601, <<GlassStr3>>) >> }

\* Payloads with a flaw after a well-formed prefix, or at the start.
BadPayloads ==
    { << Item(D0601, <<Glass05>>), Item(DFeb30, <<Metal03>>) >>,
      << Item(DSlash, <<Glass05>>) >>,
      << Item(D0601, <<Glass05, NoRate>>) >>,
      << Item(D0601, <<Glass05>>), Item(D0701, <<NoCargo>>) >>,
      << Item(D0601, <<Glass05, BadRate>>) >>,
      << Item(D0601, <<NullRate, Glass05>>) >>,
      << Item(D0601, <<Glass05, NumCargo>>) >> }

Payloads == GoodPayloads \cup BadPayloads

\* The uploaded file: JSON text of an object, or text json.loads rejects.
Files == {[json |-> TRUE, data |-> p] : p \in Payloads} \cup {[json |-> FALSE]}

QueryCargo == {"Glass", "Wood"}

QueryDates == {D0501, D0601, D0701, DFeb30}

DeclaredValues == {FloatOf(10000, 1), FloatOf(3, 1), FloatOf(0, 1), FloatOf(-3, 1)}

\* InsuranceCalculationRequest, after pydantic validation.
Requests ==
    [cargo_type : QueryCargo, declared_value : DeclaredValues, date : QueryDates]

Uploaders == {"u1", "u2"}

Calculators == {"c1"}

(***************************************************************************)
(* The state.                                                              *)
(***************************************************************************)
VARIABLES
    store,    \* the tariffs table: the committed rows, in order of insertion
    nextId,   \* the next value of the auto-assigned primary key
    up,       \* per uploader: the upload_tariffs request it is running
    calc,     \* per calculator: the calculate_insurance request it is running,
              \* or the healthcheck request (pc = "health")
    log       \* history: the tariffs lists of the committed uploads, in commit order

vars == <<store, nextId, up, calc, log>>

IdleUp == [pc |-> "idle", file |-> [json |-> FALSE], tariffs |-> <<>>,
           pending |-> <<>>, resp |-> [status |-> 0]]

IdleCalc == [pc |-> "idle", request |-> [cargo_type |-> "", declared_value |-> Zero,
                                          date |-> <<>>],
             tariff |-> <<>>, resp |-> [status |-> 0]]

Init ==
    /\ store = <<>>
    /\ nextId = 1
    /\ up = [u \in Uploaders |-> IdleUp]
    /\ calc = [c \in Calculators |-> IdleCalc]
    /\ log = <<>>

(***************************************************************************)
(* services.py                                                             *)
(***************************************************************************)
\* Filtered with the date compared by < in place of <=.
FilteredStrict(st, cargo_type, effective_date) ==
    {i \in 1..Len(st) : /\ st[i].cargo_type = cargo_type
                        /\ st[i].effective_date # effective_date
                        /\ DateLE(st[i].effective_date, effective_date)}

\* The rows the filter of the query keeps.
Filtered(st, cargo_type, effective_date) ==
    {i \in 1..Len(st) : /\ st[i].cargo_type = cargo_type
                        /\ DateLE(st[i].effective_date, effective_date)}

\* SelectLatest without .desc(): the order is ascending.
SelectOldest(st, cargo_type, effective_date) ==
    LET F == {i \in 1..Len(st) : /\ st[i].cargo_type = cargo_type
                                 /\ DateLE(st[i].effective_date, effective_date)}
        first == {i \in F : \A j \in F :
                               DateLE(st[i].effective_date, st[j].effective_date)}
    IN  IF F = {} THEN {<<>>} ELSE {<<st[i]>> : i \in first}

\* SelectLatest without order_by: any row the filter keeps may be the first.
SelectAnyApplicable(st, cargo_type, effective_date) ==
    LET F == {i \in 1..Len(st) : /\ st[i].cargo_type = cargo_type
                                 /\ DateLE(st[i].effective_date, effective_date)}
    IN  IF F = {} THEN {<<>>} ELSE {<<st[i]>> : i \in F}

\* ORDER BY effective_date DESC LIMIT 1: the possible results, each a sequence
\* of at most one row.  Rows of equal effective_date come in an order the
\* query does not fix, so any of them may be the first.
SelectLatest(st, cargo_type, effective_date) ==
    LET F == Filtered(st, cargo_type, effective_date)
        first == {i \in F : \A j \in F :
                               DateLE(st[j].effective_date, st[i].effective_date)}
    IN  IF F = {} THEN {<<>>} ELSE {<<st[i]>> : i \in first}

\* The possible outcomes of get_rate_for_date_and_cargo: the ValueError of
\* strptime, or the result of result.scalars().first() (rows = <<>> is None).
get_rate_for_date_and_cargo(st, cargo_type, date) ==
    LET p == StrpDate(date)
    IN  IF ~ p.ok THEN {[raised |-> "ValueError", rows |-> <<>>]}
        ELSE {[raised |-> "", rows |-> r] : r \in SelectLatest(st, cargo_type, p.date)}

\* calculate_insurance_cost, given the outcome of get_rate_for_date_and_cargo.
calculate_insurance_cost(got, declared_value) ==
    IF got.raised # "" THEN [raised |-> got.raised, value |-> Zero]
    ELSE IF got.rows = <<>> THEN [raised |-> "ValueError", value |-> Zero]
    ELSE [raised |-> "", value |-> FMul(declared_value, got.rows[1].rate)]

(***************************************************************************)
(* endpoints.py: calculate_insurance                                       *)
(***************************************************************************)
RateNotFound ==
    [status |-> 404, detail |-> "Rate not found for this cargo type and date"]

\* An exception no handler catches: the HTTP layer answers 500.
Unhandled(exc) == [status |-> 500, exc |-> exc]

\* The response of calculate_insurance, given the outcome of the lookup.
calculate_insurance(request, got) ==
    LET cost == calculate_insurance_cost(got, request.declared_value)
    IN  IF cost.raised = "ValueError" THEN RateNotFound
        ELSE IF request.declared_value.m = 0 THEN Unhandled("ZeroDivisionError")
        ELSE [status |-> 200,
              insurance_cost |-> cost.value,
              cargo_type |-> request.cargo_type,
              rate |-> FDiv(cost.value, request.declared_value),
              date |-> request.date]

\* The handler, with its one store operation (the SELECT).
CalcExecute(c, request) ==
    /\ calc[c].pc = "idle"
    /\ \E got \in get_rate_for_date_and_cargo(store, request.cargo_type,
                                              request.date) :
          calc' = [calc EXCEPT ![c] = [pc |-> "done",
                                       request |-> request,
                                       tariff |-> got.rows,
                                       resp |-> calculate_insurance(request, got)]]
    /\ UNCHANGED <<store, nextId, up, log>>

\* The response is sent and the session closed.
CalcEnd(c) ==
    /\ calc[c].pc = "done"
    /\ calc' = [calc EXCEPT ![c] = IdleCalc]
    /\ UNCHANGED <<store, nextId, up, log>>

(***************************************************************************)
(* endpoints.py: upload_tariffs                                            *)
(***************************************************************************)
NoTariff == [cargo_type |-> "", rate |-> Zero, effective_date |-> <<0, 0, 0>>]

\* TariffCreate(cargo_type=item["cargo_type"], rate=float(item["rate"]),
\* effective_date=effective_date): the tariff, or the exception raised.
TariffCreate(item, effective_date) ==
    IF "cargo_type" \notin DOMAIN item THEN [exc |-> "KeyError", tariff |-> NoTariff]
    ELSE IF "rate" \notin DOMAIN item THEN [exc |-> "KeyError", tariff |-> NoTariff]
    ELSE LET f == PyFloat(item.rate)
         IN  IF ~ f.ok THEN [exc |-> f.exc, tariff |-> NoTariff]
             ELSE IF item.cargo_type.t # "str"
             THEN [exc |-> "ValidationError", tariff |-> NoTariff]
             ELSE [exc |-> "",
                   tariff |-> [cargo_type |-> item.cargo_type.s,
                               rate |-> f.val,
                               effective_date |-> effective_date]]

\* The inner loop: the tariffs of one date key appended to acc, up to the
\* first item that raises.
RECURSIVE RateDataTariffs(_, _, _)
RateDataTariffs(rate_data, effective_date, acc) ==
    IF rate_data = <<>> THEN [exc |-> "", tariffs |-> acc]
    ELSE LET t == TariffCreate(Head(rate_data), effective_date)
         IN  IF t.exc # "" THEN [exc |-> t.exc, tariffs |-> acc]
             ELSE RateDataTariffs(Tail(rate_data), effective_date,
                                  Append(acc, t.tariff))

\* DataTariffs with the errors of a date key swallowed: the tariffs built
\* before the flaw are kept and uploaded.
DataTariffsLenient(data, acc) ==
    LET Walk[k \in 0..Len(data)] ==
            IF k = 0 THEN [stop |-> FALSE, tariffs |-> acc]
            ELSE IF Walk[k - 1].stop THEN Walk[k - 1]
            ELSE LET p == StrpDate(data[k].date_str)
                 IN  IF ~ p.ok THEN [stop |-> TRUE, tariffs |-> Walk[k - 1].tariffs]
                     ELSE LET r == RateDataTariffs(data[k].rate_data, p.date,
                                                   Walk[k - 1].tariffs)
                          IN  [stop |-> r.exc # "", tariffs |-> r.tariffs]
    IN  [exc |-> "", tariffs |-> Walk[Len(data)].tariffs]

\* The outer loop over data.items().
RECURSIVE DataTariffs(_, _)
DataTariffs(data, acc) ==
    IF data = <<>> THEN [exc |-> "", tariffs |-> acc]
    ELSE LET p == StrpDate(Head(data).date_str)
         IN  IF ~ p.ok THEN [exc |-> "ValueError", tariffs |-> acc]
             ELSE LET r == RateDataTariffs(Head(data).rate_data, p.date, acc)
                  IN  IF r.exc # "" THEN r ELSE DataTariffs(Tail(data), r.tariffs)

\* InsertRows with the date of the first tariff given to every row.
InsertRowsFirstDate(pending, nid) ==
    [k \in 1..Len(pending) |->
        [id |-> nid + k - 1,
         cargo_type |-> pending[k].cargo_type,
         rate |-> pending[k].rate,
         effective_date |-> pending[1].effective_date]]

\* InsertRows with the ids of every INSERT counted from 1.
InsertRowsFromOne(pending, nid) ==
    [k \in 1..Len(pending) |->
        [id |-> k,
         cargo_type |-> pending[k].cargo_type,
         rate |-> pending[k].rate,
         effective_date |-> pending[k].effective_date]]

\* The rows an INSERT of the session's new objects adds, ids assigned from nid.
InsertRows(pending, nid) ==
    [k \in 1..Len(pending) |->
        [id |-> nid + k - 1,
         cargo_type |-> pending[k].cargo_type,
         rate |-> pending[k].rate,
         effective_date |-> pending[k].effective_date]]

Success == [status |-> 200, body |-> "success"]

UploadBegin(u, file) ==
    /\ up[u].pc = "idle"
    /\ Len(store) < MaxStore
    /\ up' = [up EXCEPT ![u] = [IdleUp EXCEPT !.pc = "read", !.file = file]]
    /\ UNCHANGED <<store, nextId, calc, log>>

\* json.loads and the loops that build the list tariffs.
UploadParse(u) ==
    /\ up[u].pc = "read"
    /\ IF ~ up[u].file.json
       THEN up' = [up EXCEPT ![u].pc = "done",
                             ![u].resp = Unhandled("JSONDecodeError")]
       ELSE LET r == DataTariffs(up[u].file.data, <<>>)
            IN  IF r.exc # ""
                THEN up' = [up EXCEPT ![u].pc = "done", ![u].resp = Unhandled(r.exc)]
                ELSE up' = [up EXCEPT ![u].pc = "add", ![u].tariffs = r.tariffs]
    /\ UNCHANGED <<store, nextId, calc, log>>

\* UploadAdd on a session that sends and commits each object as it is added.
UploadAddAutocommit(u) ==
    /\ up[u].pc = "add"
    /\ Len(up[u].pending) < Len(up[u].tariffs)
    /\ store' = Append(store,
                       [id |-> nextId,
                        cargo_type |-> up[u].tariffs[Len(up[u].pending) + 1].cargo_type,
                        rate |-> up[u].tariffs[Len(up[u].pending) + 1].rate,
                        effective_date |->
                            up[u].tariffs[Len(up[u].pending) + 1].effective_date])
    /\ nextId' = nextId + 1
    /\ up' = [up EXCEPT ![u].pending =
                 Append(@, up[u].tariffs[Len(up[u].pending) + 1])]
    /\ UNCHANGED <<calc, log>>

\* One turn of the second loop: session.add of the next tariff.  The object is
\* pending in the request's session; nothing is sent to the store.
UploadAdd(u) ==
    /\ up[u].pc = "add"
    /\ Len(up[u].pending) < Len(up[u].tariffs)
    /\ up' = [up EXCEPT ![u].pending =
                 Append(@, up[u].tariffs[Len(up[u].pending) + 1])]
    /\ UNCHANGED <<store, nextId, calc, log>>

\* session.commit(): the pending objects are inserted in one transaction.
UploadCommit(u) ==
    /\ up[u].pc = "add"
    /\ Len(up[u].pending) = Len(up[u].tariffs)
    /\ store' = store \o InsertRows(up[u].pending, nextId)
    /\ nextId' = nextId + Len(up[u].pending)
    /\ log' = Append(log, up[u].tariffs)
    /\ up' = [up EXCEPT ![u].pc = "done", ![u].resp = Success]
    /\ UNCHANGED calc

\* session.commit() raises: the transaction is rolled back when get_db closes
\* the session, and the request fails.
UploadCommitFails(u) ==
    /\ up[u].pc = "add"
    /\ Len(up[u].pending) = Len(up[u].tariffs)
    /\ up' = [up EXCEPT ![u].pc = "done", ![u].pending = <<>>,
                        ![u].resp = Unhandled("SQLAlchemyError")]
    /\ UNCHANGED <<store, nextId, calc, log>>

UploadEnd(u) ==
    /\ up[u].pc = "done"
    /\ up' = [up EXCEPT ![u] = IdleUp]
    /\ UNCHANGED <<store, nextId, calc, log>>

(***************************************************************************)
(* main.py: healthcheck                                                    *)
(***************************************************************************)
Ok == [status |-> 200, body |-> "ok"]

\* The handler, run by a client of the read endpoints: it takes no session
\* and returns {"status": "ok"}.
Healthcheck(c) ==
    /\ calc[c].pc = "idle"
    /\ calc' = [calc EXCEPT ![c] = [IdleCalc EXCEPT !.pc = "health", !.resp = Ok]]
    /\ UNCHANGED <<store, nextId, up, log>>

\* The response is sent.
HealthcheckEnd(c) ==
    /\ calc[c].pc = "health"
    /\ calc' = [calc EXCEPT ![c] = IdleCalc]
    /\ UNCHANGED <<store, nextId, up, log>>

Next ==
    \/ \E u \in Uploaders, f \in Files : UploadBegin(u, f)
    \/ \E u \in Uploaders : UploadParse(u)
    \/ \E u \in Uploaders : UploadAdd(u)
    \/ \E u \in Uploaders : UploadCommit(u)
    \/ \E u \in Uploaders : UploadCommitFails(u)
    \/ \E u \in Uploaders : UploadEnd(u)
    \/ \E c \in Calculators, r \in Requests : CalcExecute(c, r)
    \/ \E c \in Calculators : CalcEnd(c)
    \/ \E c \in Calculators : Healthcheck(c)
    \/ \E c \in Calculators : HealthcheckEnd(c)

Spec == Init /\ [][Next]_vars

(***************************************************************************)
(* Properties.                                                             *)
(***************************************************************************)
\* The step in which calculator c runs calculate_insurance.
ExecStep(c) == calc[c].pc = "idle" /\ calc'[c].pc = "done"

\* A step of the upload request uploader u is running.
UploadStep(u) == up[u].pc # "idle" /\ up'[u] # up[u]

\* The rows of st with cargo type C and an effective date not after D.
Applicable(st, C, D) ==
    {i \in 1..Len(st) : st[i].cargo_type = C /\ DateLE(st[i].effective_date, D)}

\* Those of them with the greatest effective date.
Latest(st, C, D) ==
    {i \in Applicable(st, C, D) :
        \A j \in Applicable(st, C, D) :
            DateLE(st[j].effective_date, st[i].effective_date)}

QDate(c) == StrpDate(calc'[c].request.date)

C2_NotFoundIffNoRecord ==
    [][\A c \in Calculators :
          ExecStep(c) /\ QDate(c).ok =>
              LET A == Applicable(store, calc'[c].request.cargo_type, QDate(c).date)
              IN  /\ (calc'[c].resp = RateNotFound) <=> (A = {})
                  /\ A # {} => calc'[c].resp.status = 200]_vars

\* C3: a 200 response carries the rate of the resolved row, the insurance cost
\* declared_value * rate, and the cargo type and date of the request.
C3_ResponseOfResolvedRate ==
    [][\A c \in Calculators :
          ExecStep(c) /\ calc'[c].resp.status = 200 =>
              /\ Len(calc'[c].tariff) = 1
              /\ calc'[c].resp.rate = calc'[c].tariff[1].rate
              /\ calc'[c].resp.insurance_cost =
                     FMul(calc'[c].request.declared_value, calc'[c].tariff[1].rate)
              /\ calc'[c].resp.cargo_type = calc'[c].request.cargo_type
              /\ calc'[c].resp.date = calc'[c].request.date]_vars

\* C4: with an applicable tariff, a declared value of zero or less is answered
\* 200, with a cost of zero for zero and of the sign of value * rate below zero.
C4_NonPositiveValueAccepted ==
    [][\A c \in Calculators :
          (/\ ExecStep(c) /\ QDate(c).ok
           /\ Applicable(store, calc'[c].request.cargo_type, QDate(c).date) # {}
           /\ calc'[c].request.declared_value.m <= 0) =>
              /\ calc'[c].resp.status = 200
              /\ calc'[c].request.declared_value.m = 0 =>
                     calc'[c].resp.insurance_cost = Zero
              /\ calc'[c].request.declared_value.m < 0 =>
                     Sgn(calc'[c].resp.insurance_cost.m) =
                         Sgn(calc'[c].request.declared_value.m)
                             * Sgn(calc'[c].tariff[1].rate.m)]_vars

\* C5: a date that does not parse is never answered with the 404 "Rate not
\* found for this cargo type and date".
C5_InvalidDateNotRateNotFound ==
    [][\A c \in Calculators :
          ExecStep(c) /\ ~ QDate(c).ok => calc'[c].resp # RateNotFound]_vars

\* An entry of a payload that lacks cargo_type or rate, whose rate does not
\* convert to a number, or whose cargo_type is no string.
FlawedEntry(item) ==
    \/ "cargo_type" \notin DOMAIN item
    \/ "rate" \notin DOMAIN item
    \/ item.rate.t = "null"
    \/ item.rate.t = "str" /\ item.rate.s \notin DOMAIN DigitVal
    \/ item.cargo_type.t # "str"

\* A file that is no JSON, or whose payload has a date key that does not parse
\* or a flawed entry, at whatever position.
Flawed(file) ==
    \/ ~ file.json
    \/ \E k \in 1..Len(file.data) :
          \/ ~ StrpDate(file.data[k].date_str).ok
          \/ \E j \in 1..Len(file.data[k].rate_data) :
                FlawedEntry(file.data[k].rate_data[j])

\* C6: upload_tariffs is all-or-nothing.  No step of an upload whose payload is
\* flawed changes the store, and the upload goes from parsing straight to an
\* error response; an upload whose commit fails (any upload that does not answer
\* success) leaves the store as it was.
C6_UploadAllOrNothing ==
    [][\A u \in Uploaders :
          UploadStep(u) =>
              /\ Flawed(up[u].file) =>
                    /\ store' = store
                    /\ up'[u].pc \in {"done", "idle"}
                    /\ up'[u].pc = "done" => up'[u].resp.status # 200
              /\ (up'[u].pc = "done" /\ up'[u].resp # Success) => store' = store]_vars

\* An upload with a well-formed first date key and an unparseable second one
\* has been answered with an error while the store holds rows.
C6_Witness ==
    \E u \in Uploaders :
        /\ up[u].pc = "done"
        /\ up[u].file.json
        /\ Len(up[u].file.data) = 2
        /\ StrpDate(up[u].file.data[1].date_str).ok
        /\ ~ StrpDate(up[u].file.data[2].date_str).ok
        /\ up[u].resp.status = 500
        /\ Len(store) > 0

\* The number of entries under the date keys before the k-th.
RECURSIVE EntriesBefore(_, _)
EntriesBefore(data, k) ==
    IF k <= 1 THEN 0
    ELSE EntriesBefore(data, k - 1) + Len(data[k - 1].rate_data)

\* C7: an upload that is not flawed goes on from parsing to the commit, and a
\* commit that succeeds answers {"status": "success"}, leaves the rows of the
\* store as they were and adds one row per entry of the payload, with the
\* entry's cargo_type and rate and the date of its date key.
C7_UploadAddsEveryEntry ==
    [][\A u \in Uploaders :
          UploadStep(u) =>
              /\ (up[u].pc = "read" /\ ~ Flawed(up[u].file)) => up'[u].pc = "add"
              /\ (up'[u].pc = "done" /\ up'[u].resp.status = 200) =>
                    LET data == up[u].file.data
                        n == EntriesBefore(data, Len(data) + 1)
                    IN  /\ up'[u].resp = Success
                        /\ Len(store') = Len(store) + n
                        /\ SubSeq(store', 1, Len(store)) = store
                        /\ \A k \in 1..Len(data) :
                              \A j \in 1..Len(data[k].rate_data) :
                                 LET row == store'[Len(store)
                                                   + EntriesBefore(data, k) + j]
                                     item == data[k].rate_data[j]
                                 IN  /\ row.cargo_type = item.cargo_type.s
                                     /\ row.rate = PyFloat(item.rate).val
                                     /\ row.effective_date =
                                           StrpDate(data[k].date_str).date]_vars

\* A payload of two date keys has been committed to a store that held rows.
C7_Witness ==
    \E u \in Uploaders :
        /\ up[u].pc = "done"
        /\ up[u].resp = Success
        /\ Len(up[u].file.data) = 2
        /\ Len(log) >= 2
        /\ Len(store) >= 3

\* The dates queried in C8: those of the payloads, one between and one after.
CheckDates ==
    {<<2020, 5, 1>>, <<2020, 6, 1>>, <<2020, 6, 15>>, <<2020, 7, 1>>, <<2020, 8, 1>>}

CheckCargo == {"Glass", "Metal", "Wood"}

\* Row i holds (C, r1, D1), the row j inserted after it holds (C, r2, D2) with
\* D2 > D1, and no other row of C has an effective date in [D1, D2].
Supersedes(st, j, i) ==
    /\ i < j
    /\ st[i].cargo_type = st[j].cargo_type
    /\ st[i].effective_date # st[j].effective_date
    /\ DateLE(st[i].effective_date, st[j].effective_date)
    /\ \A k \in 1..Len(st) :
          (k \notin {i, j} /\ st[k].cargo_type = st[i].cargo_type) =>
              ~ (/\ DateLE(st[i].effective_date, st[k].effective_date)
                 /\ DateLE(st[k].effective_date, st[j].effective_date))

\* Row k is of the cargo type of row j and dated after it.
DatedAfter(st, k, j) ==
    /\ st[k].cargo_type = st[j].cargo_type
    /\ ~ DateLE(st[k].effective_date, st[j].effective_date)

\* Where row j supersedes row i, a query dated in [D1, D2) resolves to row i
\* and a query dated D2 or later, and before any later-dated row, to row j.
Supersession ==
    \A i, j \in 1..Len(store) :
        Supersedes(store, j, i) =>
            \A D \in CheckDates :
                /\ (/\ DateLE(store[i].effective_date, D)
                    /\ ~ DateLE(store[j].effective_date, D)) =>
                       SelectLatest(store, store[i].cargo_type, D) = {<<store[i]>>}
                /\ (/\ DateLE(store[j].effective_date, D)
                    /\ \A k \in 1..Len(store) :
                          DatedAfter(store, k, j) =>
                              ~ DateLE(store[k].effective_date, D)) =>
                       SelectLatest(store, store[j].cargo_type, D) = {<<store[j]>>}

\* A commit that adds no row of cargo type C changes the result of no query of C.
OtherCargoUntouched ==
    \A C \in CheckCargo :
        (\A k \in (Len(store) + 1)..Len(store') : store'[k].cargo_type # C) =>
            \A D \in CheckDates :
                SelectLatest(store', C, D) = SelectLatest(store, C, D)

\* C8: a tariff applies from its effective date until a later-dated tariff of
\* the same cargo type supersedes it, over any sequence of uploads; uploads of
\* other cargo types do not change what a query resolves to.
C8_Supersession ==
    [][store' # store => Supersession' /\ OtherCargoUntouched]_vars

\* Two uploads have been committed and a row of the second supersedes a row of
\* the first.
C8_Witness ==
    /\ Len(log) >= 2
    /\ \E i \in 1..Len(log[1]) :
          \E j \in (Len(log[1]) + 1)..Len(store) : Supersedes(store, j, i)

\* C9 as claimed: of several rows of the cargo type with the same greatest
\* effective date not after the query date, the lookup returns the one inserted
\* first (of the smallest id).
C9_FirstInsertedWins ==
    [][\A c \in Calculators :
          ExecStep(c) /\ QDate(c).ok =>
              LET L == Latest(store, calc'[c].request.cargo_type, QDate(c).date)
              IN  Cardinality(L) > 1 =>
                     /\ Len(calc'[c].tariff) = 1
                     /\ \A i \in L : calc'[c].tariff[1].id <= store[i].id]_vars

\* C9 as amended: of several rows of the cargo type with the same greatest
\* effective date not after the query date, the lookup returns one, whichever
\* its id.
C9_SomeLatestWins ==
    [][\A c \in Calculators :
          ExecStep(c) /\ QDate(c).ok =>
              LET L == Latest(store, calc'[c].request.cargo_type, QDate(c).date)
              IN  Cardinality(L) > 1 =>
                     /\ Len(calc'[c].tariff) = 1
                     /\ \E i \in L : calc'[c].tariff[1] = store[i]]_vars

\* A lookup returned a row although a row of the same cargo type and effective
\* date was inserted before it.
C9_Witness ==
    \E c \in Calculators :
        /\ calc[c].pc = "done"
        /\ Len(calc[c].tariff) = 1
        /\ \E i \in 1..Len(store) :
              /\ store[i].cargo_type = calc[c].tariff[1].cargo_type
              /\ store[i].effective_date = calc[c].tariff[1].effective_date
              /\ store[i].id < calc[c].tariff[1].id

\* The store after the uploads of lg run one after the other on an empty store.
RECURSIVE SerialStore(_)
SerialStore(lg) ==
    IF lg = <<>> THEN <<>>
    ELSE LET before == SerialStore(SubSeq(lg, 1, Len(lg) - 1))
             payload == lg[Len(lg)]
         IN  before \o [k \in 1..Len(payload) |->
                           [id |-> Len(before) + k,
                            cargo_type |-> payload[k].cargo_type,
                            rate |-> payload[k].rate,
                            effective_date |-> payload[k].effective_date]]

\* C10: the store a calculate_insurance reads holds, of every upload, all the
\* rows of its payload or none: it is the store of the serial run of the uploads
\* committed so far, and the response is a response of that serial run.
C10_NoPartialUpload ==
    [][\A c \in Calculators :
          ExecStep(c) =>
              /\ store = SerialStore(log)
              /\ \E got \in get_rate_for_date_and_cargo(
                                SerialStore(log), calc'[c].request.cargo_type,
                                calc'[c].request.date) :
                    /\ calc'[c].tariff = got.rows
                    /\ calc'[c].resp = calculate_insurance(calc'[c].request, got)]_vars

\* A calculate_insurance answered "not found" for a cargo type and date of
\* which an upload in flight holds a tariff in its session, after another
\* upload was committed.
C10_Witness ==
    \E c \in Calculators, u \in Uploaders :
        /\ calc[c].pc = "done"
        /\ calc[c].resp = RateNotFound
        /\ StrpDate(calc[c].request.date).ok
        /\ up[u].pc = "add"
        /\ Len(log) >= 1
        /\ \E k \in 1..Len(up[u].pending) :
              /\ up[u].pending[k].cargo_type = calc[c].request.cargo_type
              /\ DateLE(up[u].pending[k].effective_date,
                        StrpDate(calc[c].request.date).date)

\* The rows of the store, as a set.
Rows(st) == {st[i] : i \in 1..Len(st)}

\* A step of a calculate_insurance or healthcheck request: its handler or the
\* sending of its response.
ReadStep == calc' # calc

\* C11: the store is append-only and reads are pure.  In every step every row
\* of the store stays in it with its id, cargo_type, rate and effective_date,
\* the ids of the rows stay distinct, and a step of calculate_insurance
\* (answered 200, 404 or 500) or of healthcheck leaves the rows as they were.
C11_AppendOnlyPureReads ==
    [][/\ Rows(store) \subseteq Rows(store')
       /\ \A i, j \in 1..Len(store') : store'[i].id = store'[j].id => i = j
       /\ ReadStep => store' = store]_vars

\* After two uploads were committed the store holds their rows and a
\* healthcheck has been answered.
C11_Witness ==
    /\ Len(log) >= 2
    /\ Len(store) >= 3
    /\ \E c \in Calculators : calc[c].pc = "health" /\ calc[c].resp = Ok
=============================================================================
